---- MODULE Spec2Model ----
(***************************************************************************)
(* The reactivity engine of reactivity-from-scratch: the dependency graph  *)
(* (targetMap, track, trigger, removeEffect), the scheduler (queue,        *)
(* queueJob, flushJobs), the effect context (activeEffect, effectStack,    *)
(* watchEffect and its stop closure), the observation layer (reactive,     *)
(* ref) and computed.  The repository holds one engine per day; `variant`  *)
(* says which file's engine a behaviour runs:                              *)
(*   "day3"  src/unnamed/part_000  (ref, watchEffect, no effect stack)     *)
(*   "day4"  src/day-4/app.js      (reactive, computed, effect stack)      *)
(*   "day6"  src/day-6/app.js      (as day 4, reactive with `result &&`)   *)
(*   "day7"  src/day-7/app.js      (as day 6, but removeEffect is missing) *)
(* JavaScript is single-threaded: a top-level operation or a job of a      *)
(* flush runs to completion, so each is one action; the functions of the   *)
(* source are operators over a record `s` of the program's state.          *)
(***************************************************************************)
EXTENDS Integers, Sequences, FiniteSets, TLC

\* ------------------------------------------------------------- bounds
\* property values of the reactive object range over 0..MaxVal
MaxVal == 1
\* values of the day-3 ref cell range over 0..MaxRefVal
MaxRefVal == 2
\* history counters saturate at MaxCount
MaxCount == 2
\* top-level ref writes recorded per synchronous burst
MaxWrites == 2
\* entries kept of the log an effect body pushes to
MaxLog == 2
\* calls of one effect's stop function
MaxStops == 2
\* effects an error may leave on effectStack before scripts stop reading the computed
MaxStack == 2

\* longest array the scripts build
MaxLen == 2
\* proxies of the nested object that effects may leave in targetMap
MaxProxies == 3

\* ------------------------------------------------------------- universe
Variants == {"day3", "day4", "day6", "day7"}
WatchEffects == {"E1", "E2"}
\* the computed's internal invalidation effect (computedEffect)
CE == "cE"
Undefined == "undefined"
Null == "null"
Keys == {"a", "b", "c"}
\* (target, key) pairs that can carry subscribers
ObjDeps == {<<"T", k>> : k \in Keys}
\* the ref cell: the day-3 refObject, and the day-7 ref held in a slot of T
RefDep == <<"r", "value">>
\* the refs a day-7 script creates: r, and r2 to put in r's place
Refs == {"r", "r2"}
\* the nested object N held at key n of the day-6 reactive object
NestedDep == <<"N", "count">>
\* the reactive array: its index keys and the values of its elements
ArrVals == {Undefined, "x"}
\* what a script may pass to reactive() and ref()
Inputs == {Null, "prim", "obj"}
\* ref(obj): a deep cell holding the object N
DeepCell == [shallow |-> FALSE, holds |-> "obj"]
\* history: no cleanup of an effect was invoked; the effect has not run in this pass
NoCleanups == [n |-> 0, self |-> FALSE]
NoRun == [had |-> FALSE, n |-> 0, self |-> FALSE]
NoOp == [op |-> "none", k |-> "", v |-> 0, old |-> 0]
CmpDep == <<"cmp", "value">>

HasStack(v) == v # "day3"
HasReactive(v) == v # "day3"
HasComputed(v) == v # "day3"
HasRef(v) == v = "day3"
HasRemoveEffect(v) == v # "day7"
HasReadonly(v) == v = "day6"
HasArrayHandler(v) == v = "day7"

Other(e) == IF e = "E1" THEN "E2" ELSE "E1"
Sat(n) == IF n < MaxCount THEN n + 1 ELSE n

\* ------------------------------------------------------------- state
VARIABLES
  variant,        \* which day's engine runs
  store,          \* raw values: store[<<target, key>>]
  targetMap,      \* target -> (key -> insertion-ordered set of effects)
  queue,          \* the job queue, a Set in insertion order
  isFlushPending, \* the pending-flush flag
  microtasks,     \* flushJobs microtasks scheduled and not yet started
  phase,          \* "sync" | "flushing" | "settled" | "aborted"
  pos,            \* entries of queue the running flush has visited
  effectStack,    \* the stack of running effects (day 4 and later)
  activeEffect,   \* the currently running effect
  body,           \* body[e]: the function given to watchEffect ("none": not created)
  cleanup,        \* cleanup[e]: the cleanup closure variable of e
  dirty,          \* computed: dirty flag
  value,          \* computed: memoized value
  getter,         \* computed: which getter function it was given
  refKeys,        \* the keys of T whose raw slot holds a ref (day 7)
  slotRef,        \* the ref that slot holds
  refCell,        \* the day-6 ref cell: made by shallowRef or ref, and what it holds
  arr,            \* the raw array behind the reactive array (day 7)
  result,         \* what the last call made by a script returned or raised
  \* history variables (observations only, never read by the engine)
  stopCalls,      \* number of stop() calls of e (saturating)
  runs,           \* executions of e in the flush of this burst
  lastReads,      \* the (target,key) pairs e's most recent run read
  changed,        \* pairs some effect last read that writes of this burst changed
  hit,            \* at the flush's start: the pairs of changed that e had last read
  cleanupRuns,    \* invocations of the cleanup currently registered by e
  seen,           \* the computed value e's most recent run observed
  calls,          \* getter invocations since computedEffect last ran
  callsW,         \* getter invocations since the last write to a source
  log,            \* the values the logging body pushed
  wrote,          \* values the ref held since this burst created a logging effect
  fresh,          \* e was created in this burst
  pend,           \* jobs added to the queue during this pass and not yet run
  effWrites,      \* effects whose run in this pass changed the value of a key
  cancelled,      \* cancelled[e]: stop() was called before e's first run began
  sinceRun,       \* sinceRun[e]: cleanup invocations of e since its last run: [n, self]
  atRun,          \* atRun[e]: what the run of e in this pass found: [had, n, self]
  stale,          \* stale[e]: pairs e was subscribed to whose value changed since e's last run began
  lastOp          \* the call a script made in the last step (NoOp: none recorded)

engineVars == <<store, targetMap, queue, isFlushPending, microtasks, phase, pos,
                effectStack, activeEffect, body, cleanup, dirty, value, refKeys,
                slotRef, refCell, arr, result>>
histVars == <<stopCalls, runs, lastReads, changed, hit, cleanupRuns, seen, calls,
              callsW, log, wrote, fresh, pend, effWrites, cancelled, sinceRun, atRun,
              stale, lastOp>>
vars == <<variant, getter, engineVars, histVars>>

\* the program state as one record; exc: an exception is propagating
Cur ==
  [variant |-> variant, store |-> store, targetMap |-> targetMap, queue |-> queue,
   isFlushPending |-> isFlushPending, microtasks |-> microtasks, phase |-> phase,
   pos |-> pos, effectStack |-> effectStack, activeEffect |-> activeEffect,
   body |-> body, cleanup |-> cleanup, dirty |-> dirty, value |-> value,
   getter |-> getter, stopCalls |-> stopCalls, runs |-> runs,
   lastReads |-> lastReads, changed |-> changed, hit |-> hit,
   cleanupRuns |-> cleanupRuns, seen |-> seen, calls |-> calls, callsW |-> callsW,
   log |-> log, wrote |-> wrote, fresh |-> fresh, pend |-> pend,
   effWrites |-> effWrites, cancelled |-> cancelled, stale |-> stale,
   sinceRun |-> sinceRun, atRun |-> atRun,
   refKeys |-> refKeys, slotRef |-> slotRef, refCell |-> refCell,
   arr |-> arr, result |-> result, lastOp |-> lastOp, exc |-> FALSE]

Install(s) ==
  /\ variant' = s.variant
  /\ getter' = s.getter
  /\ store' = s.store
  /\ targetMap' = s.targetMap
  /\ queue' = s.queue
  /\ isFlushPending' = s.isFlushPending
  /\ microtasks' = s.microtasks
  /\ phase' = s.phase
  /\ pos' = s.pos
  /\ effectStack' = s.effectStack
  /\ activeEffect' = s.activeEffect
  /\ body' = s.body
  /\ cleanup' = s.cleanup
  /\ dirty' = s.dirty
  /\ value' = s.value
  /\ stopCalls' = s.stopCalls
  /\ runs' = s.runs
  /\ lastReads' = s.lastReads
  /\ changed' = s.changed
  /\ hit' = s.hit
  /\ cleanupRuns' = s.cleanupRuns
  /\ seen' = s.seen
  /\ calls' = s.calls
  /\ callsW' = s.callsW
  /\ log' = s.log
  /\ wrote' = s.wrote
  /\ fresh' = s.fresh
  /\ pend' = s.pend
  /\ effWrites' = s.effWrites
  /\ cancelled' = s.cancelled
  /\ stale' = s.stale
  /\ sinceRun' = s.sinceRun
  /\ atRun' = s.atRun
  /\ refKeys' = s.refKeys
  /\ slotRef' = s.slotRef
  /\ refCell' = s.refCell
  /\ arr' = s.arr
  /\ result' = s.result
  /\ lastOp' = s.lastOp

\* ------------------------------------------------------------- JS Set
\* A JavaScript Set iterates in insertion order; add of a member is a no-op.
Has(seq, x) == \E i \in 1..Len(seq) : seq[i] = x
SetAdd(seq, x) == IF Has(seq, x) THEN seq ELSE Append(seq, x)
SetDelete(seq, x) == SelectSeq(seq, LAMBDA y : y # x)
IndexOf(seq, x) == CHOOSE i \in 1..Len(seq) : seq[i] = x
Members(seq) == {seq[i] : i \in 1..Len(seq)}
EmptyMap == [x \in {} |-> <<>>]
MapDelete(m, k) == [x \in (DOMAIN m) \ {k} |-> m[x]]


\* ------------------------------------------------------------- scheduler
\* a queue that is an array instead of a Set: every trigger appends the job
\* (the scheduler C1 rules out)
queueJobArray(s, job) ==
  LET s1 == [s EXCEPT !.queue = Append(@, job)]
  IN IF ~s1.isFlushPending
     THEN [s1 EXCEPT !.isFlushPending = TRUE, !.microtasks = @ + 1]
     ELSE s1

\* a queueJob that schedules a flush on every call (what C18 rules out)
queueJobEager(s, job) ==
  [s EXCEPT !.queue = SetAdd(@, job), !.isFlushPending = TRUE,
            !.microtasks = Sat(@)]

\* queueJob(job): queue.add(job); schedule one flushJobs microtask if none is pending
queueJob(s, job) ==
  LET s1 == [s EXCEPT !.queue = SetAdd(@, job),
                      !.pend = IF s.phase = "flushing" /\ ~Has(s.queue, job)
                               THEN @ \cup {job} ELSE @]
  IN IF ~s1.isFlushPending
     THEN [s1 EXCEPT !.isFlushPending = TRUE, !.microtasks = @ + 1]
     ELSE s1

\* dep.forEach((effect) => queueJob(effect))
RECURSIVE queueEach(_, _)
queueEach(s, dep) ==
  IF dep = <<>> THEN s ELSE queueEach(queueJob(s, Head(dep)), Tail(dep))

\* a stop that leaves the job in the queue (what C20 rules out)
queueDeleteNone(s, job) == s

\* queue.delete(job): an entry the running for-of has already passed moves the
\* iterator back with it, so the entries after it are still visited
queueDelete(s, job) ==
  IF ~Has(s.queue, job) THEN s
  ELSE LET i == IndexOf(s.queue, job)
       IN [s EXCEPT !.queue = SetDelete(@, job), !.pend = @ \ {job},
                    !.pos = IF s.phase = "flushing" /\ i <= @ THEN @ - 1 ELSE @]

\* ------------------------------------------------------------- dependency graph
track(s, target, key) ==
  IF s.activeEffect \in {Undefined, Null} THEN s
  ELSE LET depsMap == IF target \in DOMAIN s.targetMap
                      THEN s.targetMap[target] ELSE EmptyMap
           dep == IF key \in DOMAIN depsMap THEN depsMap[key] ELSE <<>>
       IN [s EXCEPT !.targetMap =
             (target :> ((key :> SetAdd(dep, s.activeEffect)) @@ depsMap)) @@ @]

trigger(s, target, key) ==
  IF target \notin DOMAIN s.targetMap THEN s
  ELSE IF key \notin DOMAIN s.targetMap[target] THEN s
  ELSE queueEach(s, s.targetMap[target][key])

\* an inner forEach that deletes the effect and keeps the emptied sets (what
\* C17 rules out)
removeFromDepsKeep(depsMap, e) ==
  [k \in DOMAIN depsMap |-> SetDelete(depsMap[k], e)]

\* the inner forEach of removeEffect over one depsMap
removeFromDeps(depsMap, e) ==
  LET emptied == {k \in DOMAIN depsMap :
                    Has(depsMap[k], e) /\ SetDelete(depsMap[k], e) = <<>>}
  IN [k \in (DOMAIN depsMap) \ emptied |-> SetDelete(depsMap[k], e)]

removeEffect(s, e) ==
  LET swept == [t \in DOMAIN s.targetMap |-> removeFromDeps(s.targetMap[t], e)]
      kept == {t \in DOMAIN swept : DOMAIN swept[t] # {}}
  IN [s EXCEPT !.targetMap = [t \in kept |-> swept[t]]]

\* ------------------------------------------------------------- effect context
pushEffect(s, effect) ==
  [s EXCEPT !.effectStack = Append(@, effect), !.activeEffect = effect]

\* a popEffect that leaves no effect active, as the finally of the day-3
\* wrappedEffect does (what C25 rules out)
popEffectClear(s) ==
  [s EXCEPT !.effectStack = IF @ = <<>> THEN <<>> ELSE SubSeq(@, 1, Len(@) - 1),
            !.activeEffect = Undefined]

popEffect(s) ==
  LET st == IF s.effectStack = <<>> THEN <<>>
            ELSE SubSeq(s.effectStack, 1, Len(s.effectStack) - 1)
  IN [s EXCEPT !.effectStack = st,
               !.activeEffect = IF st = <<>> THEN Undefined ELSE st[Len(st)]]

\* ------------------------------------------------------------- observation layer
\* history: the value stored at dep changed; every effect subscribed to dep now
\* has a run older than the value
NoteChange(s, dep) ==
  LET subs == IF dep[1] \in DOMAIN s.targetMap
              THEN IF dep[2] \in DOMAIN s.targetMap[dep[1]]
                   THEN Members(s.targetMap[dep[1]][dep[2]]) ELSE {}
              ELSE {}
  IN [s EXCEPT !.stale = [e \in WatchEffects |->
                            IF e \in subs THEN @[e] \cup {dep} ELSE @[e]]]

\* isRef(result): the slot of T at key holds the ref
SlotIsRef(s, target, key) == target = "T" /\ key \in s.refKeys
\* the (target, key) pair of that ref's value
SlotDep(s) == <<s.slotRef, "value">>

\* reactive(): the get trap. A slot that holds a ref (day 7) is unwrapped
\* before track is reached: isRef(result) reads result.__v_isRef and the return
\* reads result.value, both through the ref's own proxy.
reactiveGet(s, target, key) ==
  IF SlotIsRef(s, target, key)
  THEN track(track(s, s.slotRef, "__v_isRef"), s.slotRef, "value")
  ELSE track(s, target, key)

\* the value the get trap returns
reactiveRead(s, target, key) ==
  IF SlotIsRef(s, target, key) THEN s.store[SlotDep(s)] ELSE s.store[<<target, key>>]

\* the (target, key) pair whose subscribers a read of target[key] joins
ReadDep(s, target, key) ==
  IF SlotIsRef(s, target, key) THEN SlotDep(s) ELSE <<target, key>>

\* the source the computed's getter reads
SourceDep == <<"T", "a">>

\* a set trap that stores the value and notifies nobody (what C3 rules out)
reactiveSetSilent(s, target, key, v) ==
  [s EXCEPT !.store[<<target, key>>] = v]

\* a set trap that replaces whatever the slot holds, a ref included, and
\* triggers the slot's own key (what C15 rules out)
reactiveSetReplace(s, target, key, v) ==
  LET oldValue == s.store[<<target, key>>]
      s1 == [s EXCEPT !.store[<<target, key>>] = v, !.refKeys = @ \ {key}]
  IN IF oldValue # v THEN trigger(s1, target, key) ELSE s1

\* a set trap that triggers whether or not the value changed (what C16 rules out)
reactiveSetAlways(s, target, key, v) ==
  LET dep == ReadDep(s, target, key)
  IN trigger([s EXCEPT !.store[dep] = v], dep[1], dep[2])

\* reactive(): the set trap (callsW is history: a changing write to the source).
\* A non-ref value written to a slot that holds a ref (day 7) goes to the ref:
\* oldValue.value = value runs the set trap of the ref's own proxy.
reactiveSet(s, target, key, v) ==
  IF SlotIsRef(s, target, key)
  THEN LET s0 == track(s, s.slotRef, "__v_isRef")
           oldValue == s0.store[SlotDep(s)]
           s1 == [s0 EXCEPT !.store[SlotDep(s)] = v]
       IN IF oldValue # v
          THEN trigger(NoteChange(s1, SlotDep(s)), s.slotRef, "value") ELSE s1
  ELSE LET oldValue == s.store[<<target, key>>]
           s1 == [s EXCEPT !.store[<<target, key>>] = v,
                           !.callsW = IF oldValue # v /\ <<target, key>> = SourceDep
                                      THEN 0 ELSE @]
       IN IF oldValue # v
          THEN trigger(NoteChange(s1, <<target, key>>), target, key) ELSE s1

\* reactive(): the set trap when the value assigned is a ref and the slot at
\* key holds a ref: isRef(oldValue) && !isRef(value) is false, so Reflect.set
\* puts the new ref in the slot and (target, key) is triggered when the two
\* refs differ. Both isRef tests read __v_isRef through the refs' own proxies.
reactiveSetRef(s, target, key, newRef) ==
  LET s0 == track(track(s, s.slotRef, "__v_isRef"), newRef, "__v_isRef")
      s1 == [s0 EXCEPT !.slotRef = newRef]
  IN IF s.slotRef # newRef
     THEN trigger(NoteChange(s1, <<target, key>>), target, key) ELSE s1

\* reactive(target) applied to null, a primitive or an object: what it returns
\* or raises. Day 4 and day 7 return a non-object as it is; day 6 hands it to
\* new Proxy, which raises a TypeError for a non-object target.
reactive(v, x) ==
  IF x = "obj" THEN "proxy"
  ELSE IF v = "day6" THEN "TypeError" ELSE x

\* ref(x).value: the cell's value right after construction. Day 4 stores x as
\* it is; day 6 stores reactive(x); day 7 wraps {value: x} and its get trap
\* returns reactive(x) for an object and x otherwise.
ref(v, x) ==
  IF v \in {"day3", "day4"} THEN x ELSE reactive(v, x)

\* readonly(original): the get trap reads through the reactive proxy P, whose own
\* get trap tracks (T, key), and then tracks (P, key)
readonlyGet(s, key) == track(reactiveGet(s, "T", key), "P", key)

\* reactive(res) in the get trap makes a new proxy of the nested object N on
\* every read; the ones that became targets are told apart by these names
ProxyNames == <<"F1", "F2", "F3", "F4", "F5">>
FreeProxies(s) == {i \in 1..MaxProxies : ProxyNames[i] \notin DOMAIN s.targetMap}
NewProxy(s) == ProxyNames[CHOOSE i \in FreeProxies(s) : \A j \in FreeProxies(s) : i <= j]

\* view.n.count: view.n reads n through the view and returns readonly(F), F the
\* new reactive proxy of N that P's get trap returned; reading count of it
\* goes through F's get trap, which tracks (N, count), and then tracks (F, count)
readonlyNestedGet(s) ==
  LET s1 == readonlyGet(s, "n")
  IN track(reactiveGet(s1, "N", "count"), NewProxy(s1), "count")

\* a readonly view that forwards writes to the reactive proxy (what C13 rules out)
readonlySetForward(s, target, key, v) ==
  [reactiveSet(s, target, key, v) EXCEPT !.result = TRUE]

\* readonly: set() and deleteProperty() warn and return true
readonlySet(s, target, key, v) == [s EXCEPT !.result = TRUE]
readonlyDelete(s, target, key) == [s EXCEPT !.result = TRUE]

\* the reactive array (day 7): property keys are strings
KeyOfIdx == <<"0", "1", "2", "3">>
IdxKeys == {KeyOfIdx[i] : i \in 1..MaxLen}
Idx(key) == CHOOSE i \in 1..Len(KeyOfIdx) : KeyOfIdx[i] = key
Holes(n) == [i \in 1..n |-> Undefined]

\* target[key] on the raw array
arrayRead(a, key) ==
  IF key = "length" THEN Len(a)
  ELSE IF Idx(key) <= Len(a) THEN a[Idx(key)] ELSE Undefined

\* Reflect.set on the raw array: an index past the end grows the array, a
\* length write truncates it or grows it with holes
arrayStore(a, key, v) ==
  IF key = "length"
  THEN IF v <= Len(a) THEN SubSeq(a, 1, v) ELSE a \o Holes(v - Len(a))
  ELSE IF Idx(key) <= Len(a) THEN [a EXCEPT ![Idx(key)] = v]
       ELSE a \o Holes(Idx(key) - 1 - Len(a)) \o <<v>>

arrayGet(s, key) == track(s, "arr", key)

\* handler.set of a reactive array
arraySet(s, key, v) ==
  LET oldValue == arrayRead(s.arr, key)
      s1 == [s EXCEPT !.arr = arrayStore(@, key, v)]
  IN IF oldValue # v
     THEN IF key # "length"
          THEN trigger(trigger(s1, "arr", key), "arr", "length")
          ELSE trigger(s1, "arr", key)
     ELSE s1

\* Array.prototype.push through the proxy: Set(len, v) then Set("length", len + 1)
arrayPush(s, v) ==
  LET len == Len(s.arr)
  IN arraySet(arraySet(s, KeyOfIdx[len + 1], v), "length", len + 1)

\* shallowRef / ref of day 3 and day 6 around an object or a primitive.
\* get value(): track(r, 'value'); reading count of the value then goes
\* through the reactive proxy of N when the cell is deep and holds an object
cellGet(s) ==
  LET s1 == track(s, "r", "value")
  IN IF s.refCell.holds = "obj" /\ ~s.refCell.shallow
     THEN reactiveGet(s1, "N", "count") ELSE s1

CellReads(s) ==
  IF s.refCell.holds = "obj" /\ ~s.refCell.shallow THEN {RefDep, NestedDep} ELSE {RefDep}

\* set value(newValue): a shallow cell (and the day-3 cell) stores newValue, a
\* deep cell stores reactive(newValue), which raises in day 6 when newValue is
\* not an object; then trigger(r, 'value')
cellSet(s, x) ==
  IF ~s.refCell.shallow /\ reactive(s.variant, x) = "TypeError"
  THEN [s EXCEPT !.exc = TRUE]
  ELSE trigger([s EXCEPT !.refCell.holds = x], "r", "value")

\* r.value.count = v from a script: through the reactive proxy of N when the
\* cell is deep, on the raw object when it is shallow
cellNestedSet(s, v) ==
  IF s.refCell.shallow THEN [s EXCEPT !.store[NestedDep] = v]
  ELSE reactiveSet(s, "N", "count", v)

\* ------------------------------------------------------------- day 2
\* src/day-2/app.js has no scheduler: trigger calls every subscriber at once,
\* and reactive() has one set trap for objects and arrays alike.
\* The body of the demo's effect, test.hobbies.join(', '): reads hobbies of the
\* object, then join, length and every index below length of the array
RECURSIVE joinReads(_, _, _)
joinReads(s, e, i) ==
  IF i > Len(s.arr) THEN s
  ELSE joinReads([track(s, "arr", KeyOfIdx[i])
                    EXCEPT !.lastReads[e] = @ \cup {<<"arr", KeyOfIdx[i]>>}], e, i + 1)

\* the closure effect(fn) builds: activeEffect = effect; fn(); activeEffect = null
effect(s, e) ==
  LET s1 == [s EXCEPT !.activeEffect = e, !.lastReads[e] = {}, !.runs[e] = Sat(@)]
      s2 == track(track(track(s1, "T", "hobbies"), "arr", "join"), "arr", "length")
      s3 == joinReads([s2 EXCEPT !.lastReads[e] = {<<"arr", "length">>}], e, 1)
  IN [s3 EXCEPT !.activeEffect = Null]

\* dep.forEach((effect) => effect())
RECURSIVE runEach(_, _)
runEach(s, dep) ==
  IF dep = <<>> THEN s ELSE runEach(effect(s, Head(dep)), Tail(dep))

triggerSync(s, target, key) ==
  IF target \notin DOMAIN s.targetMap THEN s
  ELSE IF key \notin DOMAIN s.targetMap[target] THEN s
  ELSE runEach(s, s.targetMap[target][key])

\* the set trap of the day-2 reactive(), on the array
reactiveArraySet(s, key, v) ==
  LET oldValue == arrayRead(s.arr, key)
      s1 == [s EXCEPT !.arr = arrayStore(@, key, v)]
  IN IF oldValue # v THEN triggerSync(s1, "arr", key) ELSE s1

\* Array.prototype.push through that proxy: Set(len, v), which already moves
\* the raw array's length, then Set("length", len + 1)
reactiveArrayPush(s, v) ==
  LET len == Len(s.arr)
  IN reactiveArraySet(reactiveArraySet(s, KeyOfIdx[len + 1], v), "length", len + 1)

\* day 3 ref(): get value() and set value(newValue)
refGet(s) == track(s, "r", "value")
refSet(s, newValue) ==
  LET s1 == [s EXCEPT !.store[RefDep] = newValue]
  IN trigger(IF s.store[RefDep] # newValue THEN NoteChange(s1, RefDep) ELSE s1,
             "r", "value")

\* ------------------------------------------------------------- computed
\* the getter given to computed(): doubleCount = count * 2
GetterResult(st) == st[SourceDep] * 2
\* the "checked" getter reads its source and throws unless it is 0
GetterThrows(s) == s.getter = "checked" /\ s.store[SourceDep] # 0

\* computedRef's get value()
computedGet(s) ==
  LET s1 == pushEffect(s, CE)
      s2 == [reactiveGet(s1, "T", "a") EXCEPT !.calls = Sat(@), !.callsW = Sat(@)]
      s3 == IF GetterThrows(s2) THEN [s2 EXCEPT !.exc = TRUE]
            ELSE [popEffect([s2 EXCEPT !.value = GetterResult(s2.store)])
                    EXCEPT !.dirty = FALSE]
      s4 == IF s.dirty THEN s3 ELSE s
  IN IF s4.exc THEN s4 ELSE track(s4, "cmp", "value")

computedEffect(s) ==
  trigger([s EXCEPT !.dirty = TRUE, !.calls = 0], "cmp", "value")

\* ------------------------------------------------------------- watchEffect
\* invoking the closure held in cleanup[e]: "plain" touches nothing reactive,
\* "reset" writes 0 to the source the effect reads
callCleanup(s, e) ==
  LET s1 == [s EXCEPT !.cleanupRuns[e] = Sat(@),
                      !.sinceRun[e] = [n |-> Sat(@.n),
                                       self |-> @.self \/ s.activeEffect = e]]
  IN IF s.cleanup[e] = "reset"
     THEN IF HasRef(s.variant) THEN refSet(s1, 0) ELSE reactiveSet(s1, "T", "a", 0)
     ELSE s1

\* the stop closure watchEffect returns
stop(s, e) ==
  LET s0 == [s EXCEPT !.stopCalls[e] = IF @ < MaxStops THEN @ + 1 ELSE @,
                      !.cancelled[e] = @ \/ (s.lastReads[e] = {} /\ s.activeEffect # e
                                             /\ s.stopCalls[e] = 0),
                      !.stale[e] = {}]
      s1 == queueDelete(s0, e)
      s2 == IF s1.cleanup[e] # Undefined THEN callCleanup(s1, e) ELSE s1
  IN IF HasRemoveEffect(s.variant) THEN removeEffect(s2, e)
     ELSE [s2 EXCEPT !.exc = TRUE]

\* the statements an effect body is made of
Op(op, k, v) == [op |-> op, k |-> k, v |-> v]

Program(b) ==
  CASE b = "readA" -> <<Op("get", "a", 0)>>
    [] b = "readABC" -> <<Op("get", "a", 0), Op("get", "b", 0), Op("get", "c", 0)>>
    [] b = "readACmp" -> <<Op("get", "a", 0), Op("cget", "", 0)>>
    [] b = "readBCmp" -> <<Op("get", "b", 0), Op("cget", "", 0)>>
    [] b = "readCmp" -> <<Op("cget", "", 0)>>
    [] b = "readCmpB" -> <<Op("cget", "", 0), Op("get", "b", 0)>>
    [] b = "writer" -> <<Op("get", "b", 0), Op("set", "a", 1)>>
    [] b = "cleanPlain" -> <<Op("get", "a", 0), Op("onCleanup", "plain", 0)>>
    [] b = "cleanReset" -> <<Op("get", "a", 0), Op("onCleanup", "reset", 0)>>
    [] b = "stopSelf" -> <<Op("stop", "self", 0), Op("get", "a", 0)>>
    [] b = "stopOther" -> <<Op("get", "b", 0), Op("stop", "other", 0)>>
    [] b = "thrower" -> <<Op("get", "a", 0), Op("throw", "", 0)>>
    [] b = "logR" -> <<Op("log", "", 0)>>
    [] b = "rCleanPlain" -> <<Op("rget", "", 0), Op("onCleanup", "plain", 0)>>
    [] b = "rCleanReset" -> <<Op("rget", "", 0), Op("onCleanup", "reset", 0)>>
    [] b = "rStopSelf" -> <<Op("stop", "self", 0), Op("rget", "", 0)>>
    [] b = "rThrower" -> <<Op("rget", "", 0), Op("throw", "", 0)>>
    \* T.b = (T.a + 1) % n  and  T.a = T.b : each re-triggers the other
    [] b = "succB" -> <<Op("succ", "b", "a")>>
    [] b = "copyA" -> <<Op("copy", "a", "b")>>
    [] b = "stopNext" -> <<Op("get", "b", 0), Op("stop", "other", 0)>>
    \* if (T.a === 0) T.b
    [] b = "condB" -> <<Op("getIf", "b", "a")>>
    [] b = "readC" -> <<Op("get", "c", 0)>>
    [] b = "viewA" -> <<Op("vget", "a", 0)>>
    [] b = "readNested" -> <<Op("nget", "", 0)>>
    [] b = "viewNested" -> <<Op("vnget", "", 0)>>
    [] b = "readCell" -> <<Op("cellget", "", 0)>>
    [] b = "readLen" -> <<Op("aget", "length", 0)>>
    [] b = "readIdx" -> <<Op("aget", "0", 0)>>

\* one statement of the body of effect e
Exec(s, e, o) ==
  CASE o.op = "get" ->
         [reactiveGet(s, "T", o.k) EXCEPT !.lastReads[e] = @ \cup {ReadDep(s, "T", o.k)}]
    [] o.op = "vget" ->
         [readonlyGet(s, o.k) EXCEPT !.lastReads[e] = @ \cup {<<"T", o.k>>}]
    [] o.op = "nget" ->
         [reactiveGet(reactiveGet(s, "T", "n"), "N", "count")
            EXCEPT !.lastReads[e] = @ \cup {NestedDep}]
    [] o.op = "cellget" ->
         [cellGet(s) EXCEPT !.lastReads[e] = @ \cup CellReads(s)]
    [] o.op = "vnget" ->
         [readonlyNestedGet(s) EXCEPT !.lastReads[e] = @ \cup {NestedDep}]
    [] o.op = "aget" ->
         [arrayGet(s, o.k) EXCEPT !.lastReads[e] = @ \cup {<<"arr", o.k>>}]
    [] o.op = "set" -> reactiveSet(s, "T", o.k, o.v)
    [] o.op = "rget" -> [refGet(s) EXCEPT !.lastReads[e] = @ \cup {RefDep}]
    [] o.op = "log" ->
         [refGet(s) EXCEPT !.lastReads[e] = @ \cup {RefDep},
                           !.log = IF Len(@) < MaxLog
                                   THEN Append(@, s.store[RefDep]) ELSE @]
    [] o.op = "cget" ->
         LET s1 == computedGet(s)
         IN IF s1.exc THEN s1
            ELSE [s1 EXCEPT !.seen[e] = s1.value,
                            !.lastReads[e] = @ \cup {CmpDep}]
    [] o.op \in {"succ", "copy"} ->
         LET s1 == [reactiveGet(s, "T", o.v) EXCEPT !.lastReads[e] = @ \cup {<<"T", o.v>>}]
             read == s1.store[<<"T", o.v>>]
             v == IF o.op = "succ" THEN (read + 1) % (MaxVal + 1) ELSE read
         IN reactiveSet([s1 EXCEPT !.effWrites = IF s1.store[<<"T", o.k>>] # v
                                                 THEN @ \cup {e} ELSE @],
                        "T", o.k, v)
    [] o.op = "getIf" ->
         LET s1 == [reactiveGet(s, "T", o.v) EXCEPT !.lastReads[e] = @ \cup {<<"T", o.v>>}]
         IN IF s1.store[<<"T", o.v>>] = 0
            THEN [reactiveGet(s1, "T", o.k) EXCEPT !.lastReads[e] = @ \cup {<<"T", o.k>>}]
            ELSE s1
    [] o.op = "onCleanup" -> [s EXCEPT !.cleanup[e] = o.k, !.cleanupRuns[e] = 0]
    \* if (stopOther) stopOther(): the other effect may not exist yet
    [] o.op = "stop" ->
         LET x == IF o.k = "self" THEN e ELSE Other(e)
         IN IF s.body[x] = "none" THEN s ELSE stop(s, x)
    [] o.op = "throw" -> [s EXCEPT !.exc = TRUE]

\* effect(registerCleanup): the statements in order, until one throws
RECURSIVE RunOps(_, _, _)
RunOps(s, e, ops) ==
  IF ops = <<>> \/ s.exc THEN s
  ELSE RunOps(Exec(s, e, Head(ops)), e, Tail(ops))

\* a wrappedEffect that drops the effect's subscriptions before each run, so
\* that only what the run reads is kept (what C27 rules out)
wrappedEffectPruned(s, e) ==
  LET s0 == removeEffect(s, e)
      s1 == IF s0.cleanup[e] # Undefined THEN callCleanup(s0, e) ELSE s0
      s2 == IF HasStack(s.variant) THEN pushEffect(s1, e)
            ELSE [s1 EXCEPT !.activeEffect = e]
      s3 == [s2 EXCEPT !.cleanup[e] = Undefined, !.lastReads[e] = {},
                       !.seen[e] = Undefined, !.stale[e] = {},
                       !.sinceRun[e] = NoCleanups]
      s4 == RunOps(s3, e, Program(s.body[e]))
  IN IF HasStack(s.variant) THEN popEffect(s4)
     ELSE [s4 EXCEPT !.activeEffect = Null]

\* wrappedEffect of watchEffect, with its try / finally
wrappedEffect(s, e) ==
  LET s1 == IF s.cleanup[e] # Undefined THEN callCleanup(s, e) ELSE s
      s2 == IF HasStack(s.variant) THEN pushEffect(s1, e)
            ELSE [s1 EXCEPT !.activeEffect = e]
      s3 == [s2 EXCEPT !.cleanup[e] = Undefined, !.lastReads[e] = {},
                       !.seen[e] = Undefined, !.stale[e] = {},
                       !.atRun[e] = [had |-> s.cleanup[e] # Undefined,
                                     n |-> s1.sinceRun[e].n,
                                     self |-> s1.sinceRun[e].self],
                       !.sinceRun[e] = NoCleanups]
      s4 == RunOps(s3, e, Program(s.body[e]))
  IN IF HasStack(s.variant) THEN popEffect(s4)
     ELSE [s4 EXCEPT !.activeEffect = Null]

\* ------------------------------------------------------------- top level
\* Each day's demo script has its own reactive object and may create a computed:
\* day 4 person {age, firstName} with ageDescription, day 6 original {nested, array}
\* without a computed, day 7 the store {count, todos, ...} with doubleCount.
KeysOf(v) ==
  CASE v = "day4" -> {"a", "b"}
    [] v = "day6" -> {"a", "b"}
    [] v = "day7" -> {"a", "b", "c"}
    [] OTHER -> {}

UsesComputed(v) == v \in {"day4", "day7"}

\* the scripts that keep the stop function watchEffect returns
KeepsStop(v) == v \in {"day3", "day6"}

\* The bodies a script may give to watchEffect, per engine.
Bodies(v) ==
  CASE v = "day3" -> {"logR", "rCleanPlain", "rCleanReset", "rStopSelf"}
    [] v = "day4" -> {"readA", "readACmp", "readBCmp", "readCmp", "readCmpB",
                      "writer"}
    [] v = "day6" -> {"readA", "writer", "cleanPlain", "cleanReset", "stopSelf",
                      "stopOther"}
    [] v = "day7" -> {"readABC", "readACmp", "readCmp", "writer"}

\* The bodies of the scripts in which an error is raised: a body that throws, a
\* body that reads the computed whose getter may throw, and a well-behaved one
\* (day 7: stop() itself raises, removeEffect is undefined).
FaultyBodies(v) ==
  CASE v = "day3" -> {"rThrower", "rCleanPlain"}
    [] v = "day4" -> {"thrower", "readACmp"}
    [] v = "day6" -> {"thrower", "readA"}
    [] v = "day7" -> {"thrower", "readACmp", "stopSelf"}

\* The bodies of the scripts whose effects write or stop during a pass: two
\* effects that re-trigger each other, one that stops the effect created after
\* it, a plain reader, and one that reads a key only while another key is 0.
PassBodies(v) ==
  CASE v = "day6" -> {"succB", "copyA", "stopNext", "readA", "condB"}
    [] v = "day7" -> {"succB", "copyA", "readA"}
    [] OTHER -> {}

\* The bodies of the scripts that exercise the observation layer: plain keys,
\* the readonly view and a nested object (day 6), a slot that holds a ref and
\* the reactive array (day 7).
ApiBodies(v) ==
  CASE v = "day4" -> {"readA"}
    [] v = "day6" -> {"readA", "viewA", "readNested"}
    [] v = "day7" -> {"readC", "readLen", "readIdx"}
    [] OTHER -> {}

\* The bodies of the day-7 script that puts another ref in the slot of key c:
\* a reader of that key and a reader of a plain key.
SlotBodies == {"readC", "readA"}

\* The bodies of the day-6 script that reads the nested object through the
\* readonly view and through the reactive proxy.
ViewBodies == {"viewNested", "readNested"}

\* The bodies of the scripts that keep and call the stop function in the day-6
\* and the day-7 engine: a plain reader and one that registers a cleanup.
StopBodies == {"readA", "cleanPlain"}

\* the keys those scripts use: the plain key a; in day 7 the key c, whose slot
\* holds the ref
ApiKeys(v) == IF v = "day7" THEN {"c"} ELSE {"a"}

\* A top-level operation that follows a flush opens a new synchronous burst.
BeginTop(s) ==
  IF s.phase \in {"settled", "aborted"}
  THEN [s EXCEPT !.phase = "sync", !.changed = {},
                 !.hit = [e \in WatchEffects |-> {}],
                 !.runs = [e \in WatchEffects \cup {CE} |-> 0],
                 !.wrote = <<>>, !.fresh = [e \in WatchEffects |-> FALSE],
                 !.pend = {}, !.effWrites = {},
                 !.atRun = [e \in WatchEffects |-> NoRun]]
  ELSE s

\* an error raised by a top-level operation goes to the script that called it
EndTop(s) == [s EXCEPT !.exc = FALSE]

\* history: a top-level write to dep; changed: the value written differs
NoteWrite(s, dep, v) ==
  LET diff == s.store[dep] # v
      read == \/ \E e \in WatchEffects : dep \in s.lastReads[e]
              \/ dep = SourceDep /\ UsesComputed(s.variant)
  IN [s EXCEPT !.changed = IF diff /\ read THEN @ \cup {dep} ELSE @,
               !.wrote = IF dep = RefDep /\ @ # <<>> THEN Append(@, v) ELSE @]

\* a watchEffect that runs the effect at once instead of queueing its first
\* run (the engine C2 describes)
watchEffectEager(s, e, b) ==
  wrappedEffect([s EXCEPT !.body[e] = b, !.fresh[e] = TRUE,
                          !.wrote = IF b = "logR" THEN <<s.store[RefDep]>> ELSE @], e)

\* watchEffect(effect): create the effect and queue its first run
watchEffect(s, e, b) ==
  queueJob([s EXCEPT !.body[e] = b, !.fresh[e] = TRUE,
                     !.wrote = IF b = "logR" THEN <<s.store[RefDep]>> ELSE @], e)

CanCreate(e, b) ==
  /\ phase # "flushing"
  /\ body[e] = "none"
  /\ e = "E2" => body["E1"] # "none"
  /\ b = "stopOther" => e = "E2"

WatchEffect(e, b) ==
  /\ CanCreate(e, b)
  /\ b \in Bodies(variant)
  /\ Install(EndTop(watchEffect(BeginTop(Cur), e, b)))

WatchEffectFaulty(e, b) ==
  /\ CanCreate(e, b)
  /\ b \in FaultyBodies(variant)
  /\ Install(EndTop(watchEffect(BeginTop(Cur), e, b)))

WatchEffectPass(e, b) ==
  /\ CanCreate(e, b)
  /\ b \in PassBodies(variant)
  /\ b = "stopNext" => e = "E1"
  /\ Install(EndTop(watchEffect(BeginTop(Cur), e, b)))

WatchEffectApi(e, b) ==
  /\ CanCreate(e, b)
  /\ b \in ApiBodies(variant)
  /\ Install([EndTop(watchEffect(BeginTop(Cur), e, b)) EXCEPT !.lastOp = NoOp])

WatchEffectSlot(e, b) ==
  /\ CanCreate(e, b)
  /\ b \in SlotBodies
  /\ Install([EndTop(watchEffect(BeginTop(Cur), e, b)) EXCEPT !.lastOp = NoOp])

WatchEffectView(e, b) ==
  /\ CanCreate(e, b)
  /\ b \in ViewBodies
  /\ Install([EndTop(watchEffect(BeginTop(Cur), e, b)) EXCEPT !.lastOp = NoOp])

WatchEffectStop(e, b) ==
  /\ CanCreate(e, b)
  /\ b \in StopBodies
  /\ Install([EndTop(watchEffect(BeginTop(Cur), e, b)) EXCEPT !.lastOp = NoOp])

WatchEffectCell(e) ==
  /\ CanCreate(e, "readCell")
  /\ Install([EndTop(watchEffect(BeginTop(Cur), e, "readCell")) EXCEPT !.lastOp = NoOp])

\* history: the call the script made in this step (old: the value read at k
\* before the call)
Did(s, op, k, v, old) ==
  [EndTop(s) EXCEPT !.lastOp = [op |-> op, k |-> k, v |-> v, old |-> old]]

\* T[k] = v through the reactive proxy
ProxySet(k, v) ==
  /\ phase # "flushing"
  /\ HasReactive(variant) /\ k \in ApiKeys(variant)
  /\ LET s0 == BeginTop(Cur)
         s1 == NoteWrite(s0, ReadDep(s0, "T", k), v)
     IN Install(Did(reactiveSet(s1, "T", k, v), "set", k, v, reactiveRead(s0, "T", k)))

\* T[k] = r through the reactive proxy, r a ref, at a key whose slot holds a ref
ProxySetRef(k, r) ==
  /\ phase # "flushing"
  /\ HasReactive(variant) /\ k \in ApiKeys(variant) /\ k \in refKeys
  /\ Install(Did(reactiveSetRef(BeginTop(Cur), "T", k, r), "setRef", k, r, slotRef))

\* T[k] read through the reactive proxy
ProxyGet(k) ==
  /\ phase # "flushing"
  /\ HasReactive(variant) /\ k \in ApiKeys(variant)
  /\ LET s0 == BeginTop(Cur)
     IN Install(Did([reactiveGet(s0, "T", k) EXCEPT !.result = reactiveRead(s0, "T", k)],
                    "get", k, 0, reactiveRead(s0, "T", k)))

\* view[k] = v, delete view[k] and view.n.count = v through the readonly view
ViewSet(k, v) ==
  /\ phase # "flushing"
  /\ HasReadonly(variant) /\ k \in ApiKeys(variant)
  /\ Install(Did(readonlySet(BeginTop(Cur), "T", k, v), "viewSet", k, v,
                 store[<<"T", k>>]))

ViewDelete(k) ==
  /\ phase # "flushing"
  /\ HasReadonly(variant) /\ k \in ApiKeys(variant)
  /\ Install(Did(readonlyDelete(BeginTop(Cur), "T", k), "viewDelete", k, 0,
                 store[<<"T", k>>]))

ViewNestedSet(v) ==
  /\ phase # "flushing"
  /\ HasReadonly(variant)
  /\ Install(Did(readonlySet(readonlyGet(BeginTop(Cur), "n"), "N", "count", v),
                 "viewNestedSet", "count", v, store[NestedDep]))

\* original.nested.count = v through the reactive proxy
ProxyNestedSet(v) ==
  /\ phase # "flushing"
  /\ HasReadonly(variant)
  /\ LET s0 == BeginTop(Cur)
         s1 == NoteWrite(s0, NestedDep, v)
     IN Install(Did(reactiveSet(reactiveGet(s1, "T", "n"), "N", "count", v),
                    "nestedSet", "count", v, store[NestedDep]))

\* arr[i] = v, arr.length = n and arr.push(v) through the reactive array
ArrSet(key, v) ==
  /\ phase # "flushing"
  /\ HasArrayHandler(variant) /\ key \in IdxKeys
  /\ Install(Did(arraySet(BeginTop(Cur), key, v), "arrSet", key, v,
                 arrayRead(arr, key)))

ArrSetLength(n) ==
  /\ phase # "flushing"
  /\ HasArrayHandler(variant)
  /\ Install(Did(arraySet(BeginTop(Cur), "length", n), "arrSetLength", "length", n,
                 Len(arr)))

ArrPush(v) ==
  /\ phase # "flushing"
  /\ HasArrayHandler(variant) /\ Len(arr) < MaxLen
  /\ Install(Did(arrayPush(BeginTop(Cur), v), "push", "", v, Len(arr)))

\* day 2: a script's call starts with no effect counted as run
BeginCall(s) == [s EXCEPT !.runs = [e \in WatchEffects \cup {CE} |-> 0]]

\* effect(() => test.hobbies.join(', ')): the effect runs at once
Effect(e) ==
  /\ variant = "day2"
  /\ CanCreate(e, "join")
  /\ Install(Did(effect([BeginCall(Cur) EXCEPT !.body[e] = "join"], e),
                 "effect", "", 0, 0))

\* test.hobbies[i] = v, test.hobbies.length = n and test.hobbies.push(v)
HobbiesSet(key, v) ==
  /\ variant = "day2" /\ key \in IdxKeys
  /\ Install(Did(reactiveArraySet(BeginCall(Cur), key, v), "arrSet", key, v,
                 arrayRead(arr, key)))

HobbiesSetLength(n) ==
  /\ variant = "day2"
  /\ Install(Did(reactiveArraySet(BeginCall(Cur), "length", n), "arrSetLength",
                 "length", n, Len(arr)))

HobbiesPush(v) ==
  /\ variant = "day2" /\ Len(arr) < MaxLen
  /\ Install(Did(reactiveArrayPush(BeginCall(Cur), v), "push", "", v, Len(arr)))

\* reactive(x) and ref(x).value called by a script
CallReactive(x) ==
  /\ phase # "flushing"
  /\ HasReactive(variant)
  /\ Install(Did([BeginTop(Cur) EXCEPT !.result = reactive(variant, x)], "reactive", x, 0, 0))

CallRef(x) ==
  /\ phase # "flushing"
  /\ HasReactive(variant)
  /\ Install(Did([BeginTop(Cur) EXCEPT !.result = ref(variant, x)], "ref", x, 0, 0))

\* T[k] = v from a script
SetProp(k, v) ==
  /\ phase # "flushing"
  /\ k \in KeysOf(variant)
  /\ LET s0 == BeginTop(Cur)
     IN Install(EndTop(reactiveSet(NoteWrite(s0, <<"T", k>>, v), "T", k, v)))

\* T[k] read from a script
ReadProp(k) ==
  /\ phase # "flushing"
  /\ k \in KeysOf(variant)
  /\ Install(EndTop(reactiveGet(BeginTop(Cur), "T", k)))

\* r.value = v from a script
RefSet(v) ==
  /\ phase # "flushing"
  /\ HasRef(variant)
  /\ LET s0 == BeginTop(Cur)
     IN /\ Len(s0.wrote) <= MaxWrites
        /\ Install(EndTop(refSet(NoteWrite(s0, RefDep, v), v)))

\* the stop function of e called from a script
StopEffect(e) ==
  /\ phase # "flushing"
  /\ body[e] # "none"
  /\ KeepsStop(variant)
  /\ stopCalls[e] < MaxStops
  /\ Install(EndTop(stop(BeginTop(Cur), e)))

\* the stop function of e called from a script that looks at how the call ends
StopCall(e) ==
  /\ phase # "flushing"
  /\ body[e] # "none"
  /\ stopCalls[e] < MaxStops
  /\ LET s1 == stop(BeginTop(Cur), e)
     IN Install(Did([s1 EXCEPT !.result = IF s1.exc THEN "ReferenceError"
                                          ELSE Undefined],
                    "stop", e, 0, 0))

\* r.value = x and r.value.count = v from a script (old: the queue before the call)
CellAssign(x) ==
  /\ phase # "flushing"
  /\ x \in {"prim", "obj"}
  /\ LET s1 == cellSet(BeginTop(Cur), x)
     IN Install(Did([s1 EXCEPT !.result = IF s1.exc THEN "TypeError" ELSE Undefined],
                    "cellAssign", x, 0, queue))

CellNestedSet(v) ==
  /\ phase # "flushing"
  /\ refCell.holds = "obj"
  /\ Install(Did(cellNestedSet(BeginTop(Cur), v), "cellNestedSet", "count", v, queue))

\* cmp.value read from a script
ReadComputed ==
  /\ phase # "flushing"
  /\ UsesComputed(variant)
  /\ Len(effectStack) < MaxStack
  /\ LET s0 == BeginTop(Cur)
     IN Install(EndTop(computedGet(s0)))

\* ------------------------------------------------------------- flushJobs
\* the microtask starts: for (const job of queue)
FlushStart ==
  /\ phase # "flushing"
  /\ microtasks > 0
  /\ Install([Cur EXCEPT !.microtasks = @ - 1, !.phase = "flushing", !.pos = 0,
                         !.hit = [e \in WatchEffects |-> lastReads[e] \cap changed],
                         !.lastOp = NoOp])

\* job(): an error leaves flushJobs at once, past queue.clear() and the flag reset
runJob(s) ==
  LET job == s.queue[s.pos + 1]
      s1 == [s EXCEPT !.pos = @ + 1, !.runs[job] = Sat(@), !.pend = @ \ {job}]
      s2 == IF job = CE THEN computedEffect(s1) ELSE wrappedEffect(s1, job)
  IN IF s2.exc THEN [s2 EXCEPT !.exc = FALSE, !.phase = "aborted", !.pos = 0] ELSE s2

\* the scripts end before an effect leaves more than MaxProxies proxies in targetMap
CanRun(job) ==
  (job \in WatchEffects /\ body[job] = "viewNested") => FreeProxies(Cur) # {}

FlushJob ==
  /\ phase = "flushing"
  /\ pos < Len(queue)
  /\ CanRun(queue[pos + 1])
  /\ Install(runJob(Cur))

\* a flushJobs that stops after the jobs that were queued when it began its
\* current step, leaving later additions unvisited (what C12 rules out)
FlushEndEarly ==
  /\ phase = "flushing"
  /\ pos >= 1
  /\ Install([Cur EXCEPT !.queue = <<>>, !.isFlushPending = FALSE,
                         !.phase = "settled", !.pos = 0])

\* queue.clear(); isFlushPending = false
FlushEnd ==
  /\ phase = "flushing"
  /\ pos = Len(queue)
  /\ Install([Cur EXCEPT !.queue = <<>>, !.isFlushPending = FALSE,
                         !.phase = "settled", !.pos = 0])

\* ------------------------------------------------------------- specification
InitHist ==
  /\ stopCalls = [e \in WatchEffects |-> 0]
  /\ runs = [e \in WatchEffects \cup {CE} |-> 0]
  /\ lastReads = [e \in WatchEffects |-> {}]
  /\ changed = {}
  /\ hit = [e \in WatchEffects |-> {}]
  /\ cleanupRuns = [e \in WatchEffects |-> 0]
  /\ seen = [e \in WatchEffects |-> Undefined]
  /\ calls = 0
  /\ callsW = 0
  /\ log = <<>>
  /\ wrote = <<>>
  /\ fresh = [e \in WatchEffects |-> FALSE]
  /\ pend = {}
  /\ effWrites = {}
  /\ cancelled = [e \in WatchEffects |-> FALSE]
  /\ stale = [e \in WatchEffects |-> {}]
  /\ sinceRun = [e \in WatchEffects |-> NoCleanups]
  /\ atRun = [e \in WatchEffects |-> NoRun]
  /\ lastOp = NoOp

InitState ==
  /\ store = [d \in ObjDeps \cup {<<r, "value">> : r \in Refs} \cup {NestedDep} |-> 0]
  /\ slotRef = "r"
  /\ arr = <<>>
  /\ result = Undefined
  /\ targetMap = EmptyMap
  /\ queue = <<>>
  /\ isFlushPending = FALSE
  /\ microtasks = 0
  /\ phase = "sync"
  /\ pos = 0
  /\ effectStack = <<>>
  /\ activeEffect = Undefined
  /\ body = [e \in WatchEffects |-> "none"]
  /\ cleanup = [e \in WatchEffects |-> Undefined]
  /\ dirty = TRUE
  /\ value = Undefined

InitEngine == variant \in Variants /\ InitState

Init == InitEngine /\ InitHist /\ refCell = DeepCell /\ getter = "double" /\ refKeys = {}

InitFault == InitEngine /\ InitHist /\ refCell = DeepCell /\ getter \in {"double", "checked"} /\ refKeys = {}

Next ==
  \/ \E e \in WatchEffects : \E b \in Bodies(variant) : WatchEffect(e, b)
  \/ \E k \in Keys : \E v \in 0..MaxVal : SetProp(k, v)
  \/ \E v \in 0..MaxRefVal : RefSet(v)
  \/ \E e \in WatchEffects : StopEffect(e)
  \/ ReadComputed
  \/ FlushStart
  \/ FlushJob
  \/ FlushEnd

NextFault ==
  \/ \E e \in WatchEffects : \E b \in FaultyBodies(variant) : WatchEffectFaulty(e, b)
  \/ \E k \in Keys : \E v \in 0..MaxVal : SetProp(k, v)
  \/ \E k \in Keys : ReadProp(k)
  \/ \E v \in 0..MaxRefVal : RefSet(v)
  \/ \E e \in WatchEffects : StopEffect(e)
  \/ ReadComputed
  \/ FlushStart
  \/ FlushJob
  \/ FlushEnd

InitPass ==
  /\ InitEngine /\ InitHist /\ refCell = DeepCell /\ getter = "double" /\ refKeys = {}
  /\ variant \in {"day6", "day7"}

NextPass ==
  \/ \E e \in WatchEffects : \E b \in PassBodies(variant) : WatchEffectPass(e, b)
  \/ \E k \in Keys : \E v \in 0..MaxVal : SetProp(k, v)
  \/ \E e \in WatchEffects : StopEffect(e)
  \/ FlushStart
  \/ FlushJob
  \/ FlushEnd

InitApi ==
  /\ InitEngine /\ InitHist /\ refCell = DeepCell /\ getter = "double"
  /\ variant \in {"day4", "day6", "day7"}
  /\ refKeys = IF variant = "day7" THEN {"c"} ELSE {}

NextApi ==
  \/ \E e \in WatchEffects : \E b \in ApiBodies(variant) : WatchEffectApi(e, b)
  \/ \E k \in Keys : \E v \in 0..MaxVal : ProxySet(k, v)
  \/ \E k \in Keys : ProxyGet(k)
  \/ \E k \in Keys : \E v \in 0..MaxVal : ViewSet(k, v)
  \/ \E k \in Keys : ViewDelete(k)
  \/ \E v \in 0..MaxVal : ViewNestedSet(v)
  \/ \E key \in IdxKeys : \E v \in ArrVals : ArrSet(key, v)
  \/ \E n \in 0..MaxLen : ArrSetLength(n)
  \/ \E v \in ArrVals : ArrPush(v)
  \/ \E x \in Inputs : CallReactive(x)
  \/ \E x \in Inputs : CallRef(x)
  \/ FlushStart
  \/ FlushJob
  \/ FlushEnd

InitSlot ==
  /\ InitEngine /\ InitHist /\ refCell = DeepCell /\ getter = "double"
  /\ variant = "day7" /\ refKeys = {"c"}

NextSlot ==
  \/ \E e \in WatchEffects : \E b \in SlotBodies : WatchEffectSlot(e, b)
  \/ \E k \in Keys : \E v \in 0..MaxVal : ProxySet(k, v)
  \/ \E k \in Keys : \E r \in Refs : ProxySetRef(k, r)
  \/ \E k \in Keys : ProxyGet(k)
  \/ FlushStart
  \/ FlushJob
  \/ FlushEnd

InitView ==
  /\ InitEngine /\ InitHist /\ refCell = DeepCell /\ getter = "double" /\ refKeys = {}
  /\ variant = "day6"

NextView ==
  \/ \E e \in WatchEffects : \E b \in ViewBodies : WatchEffectView(e, b)
  \/ \E v \in 0..MaxVal : ProxyNestedSet(v)
  \/ \E v \in 0..MaxVal : ViewNestedSet(v)
  \/ FlushStart
  \/ FlushJob
  \/ FlushEnd

InitDay2 ==
  /\ InitState /\ InitHist /\ refCell = DeepCell /\ getter = "double" /\ refKeys = {}
  /\ variant = "day2"

NextDay2 ==
  \/ \E e \in WatchEffects : Effect(e)
  \/ \E key \in IdxKeys : \E v \in ArrVals : HobbiesSet(key, v)
  \/ \E n \in 0..MaxLen : HobbiesSetLength(n)
  \/ \E v \in ArrVals : HobbiesPush(v)

InitStop ==
  /\ InitEngine /\ InitHist /\ refCell = DeepCell /\ getter = "double" /\ refKeys = {}
  /\ variant \in {"day6", "day7"}

NextStop ==
  \/ \E e \in WatchEffects : \E b \in StopBodies : WatchEffectStop(e, b)
  \/ \E k \in Keys : \E v \in 0..MaxVal : SetProp(k, v)
  \/ \E e \in WatchEffects : StopCall(e)
  \/ FlushStart
  \/ FlushJob
  \/ FlushEnd

\* the day-3 ref stores what it is given, as a shallow cell does
InitCell ==
  /\ InitEngine /\ InitHist /\ getter = "double" /\ refKeys = {}
  /\ variant \in {"day3", "day6"}
  /\ refCell \in {[shallow |-> sh, holds |-> "obj"] : sh \in BOOLEAN}
  /\ variant = "day3" => refCell.shallow

NextCell ==
  \/ \E e \in WatchEffects : WatchEffectCell(e)
  \/ \E x \in Inputs : CellAssign(x)
  \/ \E v \in 0..MaxVal : CellNestedSet(v)
  \/ \E e \in WatchEffects : StopCall(e)
  \/ FlushStart
  \/ FlushJob
  \/ FlushEnd

\* effect bodies and getters that return normally
Spec == Init /\ [][Next]_vars

\* effect bodies and getters that may raise an error
SpecFault == InitFault /\ [][NextFault]_vars

\* effect bodies that write to the reactive object or stop another effect
SpecPass == InitPass /\ [][NextPass]_vars

\* scripts that use the observation layer: readonly views, refs in slots, arrays
SpecApi == InitApi /\ [][NextApi]_vars

\* scripts that call the stop function in the day-6 and the day-7 engine
SpecStop == InitStop /\ [][NextStop]_vars

\* scripts that write to a ref or shallowRef cell and to the object it holds
SpecCell == InitCell /\ [][NextCell]_vars

\* the day-2 engine (synchronous trigger) with the array demo
SpecDay2 == InitDay2 /\ [][NextDay2]_vars

\* the day-6 script whose effects read the nested object through the readonly view
SpecView == InitView /\ [][NextView]_vars

\* the day-7 script that replaces the ref held in a slot of the reactive object
SpecSlot == InitSlot /\ [][NextSlot]_vars

\* ------------------------------------------------------------- observations
Created(e) == body[e] # "none"
Stopped(e) == stopCalls[e] > 0
\* e is in some subscriber set of targetMap
Subscribed(e) ==
  \E t \in DOMAIN targetMap : \E k \in DOMAIN targetMap[t] : Has(targetMap[t][k], e)
\* no effect body writes to the reactive object
NoWriter == \A e \in WatchEffects : body[e] # "writer"

\* C1: batching. When top-level writes of one burst changed the three keys a, b
\* and c that an effect (never stopped) had read in its last run, the flush
\* that follows runs that effect exactly once.
C1_Batching ==
  \A e \in WatchEffects :
    (phase = "settled" /\ ObjDeps \subseteq hit[e] /\ ~Stopped(e)) => runs[e] = 1

C1_Witness ==
  \E e \in WatchEffects :
    /\ variant = "day7" /\ phase = "settled" /\ ObjDeps \subseteq hit[e]
    /\ runs[e] = 1

\* C2: the end-to-end scenario of the day-3 engine (c = ref(0), one effect
\* that logs c.value, then c.value = 1 and c.value = 2 before the flush).
\* The scenario, generalised to any values: the only effect was created in
\* this burst with the logging body, the ref then held the values of wrote,
\* and the flush has run.
C2_Scenario ==
  /\ variant = "day3" /\ phase = "settled"
  /\ body["E1"] = "logR" /\ fresh["E1"] /\ ~Stopped("E1")
  /\ body["E2"] = "none"
  /\ wrote # <<>>

\* C2 as amended: the first run is deferred to the flush, so the effect runs
\* once, after the writes, and the log holds the last value alone ([2]).
C2_LogsFinalValueOnly == C2_Scenario => log = <<wrote[Len(wrote)]>>

\* C2 as stated: the log is [0, 2].
C2_LogsInitialThenFinal == (C2_Scenario /\ wrote = <<0, 1, 2>>) => log = <<0, 2>>

C2_Witness == C2_Scenario /\ wrote = <<0, 1, 2>> /\ log = <<2>>

C4_ObservesRecomputed ==
  \A e \in WatchEffects :
    (/\ variant = "day4" /\ phase = "settled" /\ NoWriter
     /\ SourceDep \in changed /\ CmpDep \in lastReads[e]
     /\ ~fresh[e] /\ ~Stopped(e))
    => seen[e] = GetterResult(store)

\* C5: a stopped effect is in no subscriber set and not in the queue.
C5_StoppedIsGone ==
  \A e \in WatchEffects :
    (variant = "day6" /\ Stopped(e)) => (~Has(queue, e) /\ ~Subscribed(e))

\* C6: the cleanup an effect registered is invoked at most once, however
\* often stop() is called.
C6_CleanupOnce ==
  \A e \in WatchEffects : variant \in {"day3", "day6"} => cleanupRuns[e] <= 1

\* C7: when a job throws during a flush, every job of the queue of that pass
\* has still been executed.
C7_FaultSkipsNoJob ==
  (variant \in {"day6", "day7"} /\ phase = "aborted")
  => \A e \in Members(queue) : runs[e] >= 1

\* C8: no effect is running between two actions, so the effect stack is empty
\* and activeEffect is undefined, also after a body or a getter has thrown.
C8_StackRestored ==
  variant = "day7" => (effectStack = <<>> /\ activeEffect = Undefined)

\* C9: whenever dirty is false the memoized value is what the getter returns
\* from the current value of its source.
C9_MemoValidWhenClean ==
  (variant = "day4" /\ ~dirty) => value = GetterResult(store)

\* C10: memoization. The getter has been invoked at most once since the last
\* value-changing write to its source, and at most once since the last
\* execution of the invalidation effect.
C10_GetterAtMostOnce == variant = "day7" => (callsW <= 1 /\ calls <= 1)

\* the two effects re-trigger each other: one assigns to the key the other
\* reads, and the other assigns back
Mutual ==
  {body["E1"], body["E2"]} = {"succB", "copyA"}

\* the pass of this burst started with one of the two queued by a top-level
\* write, and both made a value-changing write when they ran
MutualPass ==
  /\ Mutual /\ ~fresh["E1"] /\ ~fresh["E2"]
  /\ changed # {} /\ effWrites = WatchEffects

C12_LivePass ==
  /\ phase = "flushing" =>
       /\ \A i \in 1..pos : runs[queue[i]] >= 1
       /\ \A e \in pend : Has(queue, e) /\ IndexOf(queue, e) > pos
  /\ phase = "settled" =>
       /\ pend = {}
       /\ queue = <<>> /\ ~isFlushPending /\ microtasks = 0

\* an effect that no top-level operation had queued was run in the pass: the
\* write of the other effect's body added it while flushJobs was iterating
C12_Witness ==
  /\ variant = "day6" /\ phase = "settled" /\ queue = <<>>
  /\ \E e \in WatchEffects :
       /\ ~fresh[e] /\ hit[e] = {} /\ stopCalls = [x \in WatchEffects |-> 0]
       /\ runs[e] = 1 /\ Other(e) \in effWrites

\* the effects subscribed to (t, k)
Subs(t, k) ==
  IF t \in DOMAIN targetMap
  THEN IF k \in DOMAIN targetMap[t] THEN Members(targetMap[t][k]) ELSE {}
  ELSE {}

ViewOps == {"viewSet", "viewDelete", "viewNestedSet"}

\* C13: readonly rejection. A step in which a script sets or deletes a key
\* through the readonly view, or sets a key of the nested object reached
\* through the view, leaves every stored value unchanged, adds no job to the
\* queue, schedules no flush, and returns true to the caller.
C13_ViewRejects ==
  [][lastOp'.op \in ViewOps =>
       /\ store' = store
       /\ queue' = queue /\ microtasks' = microtasks
       /\ isFlushPending' = isFlushPending
       /\ result' = TRUE]_vars

\* a set through the view of a value that differs from the stored one, while
\* an effect is subscribed to that key: nothing was stored, nothing queued
C13_Witness ==
  /\ variant = "day6" /\ lastOp.op = "viewSet"
  /\ lastOp.v # store[<<"T", lastOp.k>>]
  /\ Subs("T", lastOp.k) # {}
  /\ queue = <<>> /\ result = TRUE

\* the effects whose last run read only the array's length
LengthReaders == {e \in WatchEffects : lastReads[e] = {<<"arr", "length">>}}

\* C14: array length propagation. After a push that grew the array, every
\* effect whose last run read only .length is queued for the next flush; after
\* an index write that changed a value, the subscribers of that index and of
\* "length" are queued.
C14_LengthPropagates ==
  variant = "day7" =>
    /\ lastOp.op = "push" => LengthReaders \subseteq Members(queue)
    /\ (lastOp.op = "arrSet" /\ lastOp.old # lastOp.v) =>
         (Subs("arr", lastOp.k) \cup Subs("arr", "length")) \subseteq Members(queue)

\* C15: ref auto-unwrap (day 7). A step in which a script reads a key whose
\* slot holds a ref returns the ref's current value. A step in which a script
\* writes a non-ref value v to that key leaves the ref in the slot, sets the
\* ref's value to v, and queues the subscribers of the ref's "value", and
\* nothing else, exactly when v differs from the ref's previous value.
C15_RefSlotUnwrap ==
  [][/\ (lastOp'.op = "get" /\ lastOp'.k \in refKeys) =>
          result' = store[<<slotRef, "value">>]
     /\ (lastOp'.op = "set" /\ lastOp'.k \in refKeys) =>
          /\ refKeys' = refKeys /\ slotRef' = slotRef
          /\ store'[<<slotRef, "value">>] = lastOp'.v
          /\ IF lastOp'.v # store[<<slotRef, "value">>]
             THEN Members(queue') = Members(queue) \cup Subs(slotRef, "value")
             ELSE queue' = queue /\ microtasks' = microtasks]_vars

\* a write of a different value to the key whose slot holds the ref, with an
\* effect subscribed to the ref: the ref holds the value and the effect is queued
C15_Witness ==
  /\ variant = "day7" /\ lastOp.op = "set" /\ lastOp.k \in refKeys
  /\ lastOp.old # lastOp.v /\ store[<<slotRef, "value">>] = lastOp.v
  /\ Subs(slotRef, "value") # {} /\ Subs(slotRef, "value") \subseteq Members(queue)

C17_NoEmptyEntries ==
  \A t \in DOMAIN targetMap :
    /\ DOMAIN targetMap[t] # {}
    /\ \A k \in DOMAIN targetMap[t] : targetMap[t][k] # <<>>

\* stop() removed the last subscriber of the only key that had one: the key
\* and its target are gone from targetMap
C17_Witness ==
  /\ variant = "day6" /\ targetMap = EmptyMap
  /\ \E e \in WatchEffects : Stopped(e) /\ lastReads[e] # {}

\* C18: scheduler deduplication. The queue holds each job at most once, at
\* most one flushJobs microtask is scheduled and not yet started, and none is
\* scheduled while a flush is running or while one is still to start.
C18_OneJobOneFlush ==
  /\ \A i, j \in 1..Len(queue) : queue[i] = queue[j] => i = j
  /\ microtasks <= 1
  /\ phase = "flushing" => microtasks = 0
  /\ microtasks = 1 => isFlushPending

\* two effects were queued by two queueJob calls and one flush is scheduled
C18_Witness ==
  /\ variant = "day3" /\ Len(queue) = 2 /\ microtasks = 1 /\ phase # "flushing"

\* C19: reactive(x) is a passthrough for non-composite values. After a script
\* called reactive on null or on a primitive the call has returned that value,
\* and after it built ref(v) on a primitive v the cell's .value is v.
C19_Passthrough ==
  /\ (lastOp.op = "reactive" /\ lastOp.k \in {Null, "prim"}) => result = lastOp.k
  /\ (lastOp.op = "ref" /\ lastOp.k = "prim") => result = lastOp.k

\* e's body has not been executed (every body of SpecPass reads a property
\* before anything else, and a run records what it read)
NeverRan(e) == lastReads[e] = {}

\* C20: stop() cancels a run that has not started. Once stop() was called on an
\* effect whose first run had not begun (from the script before the flush, or
\* from a job earlier in the same pass), the effect is not in the queue, its
\* body is never executed and it is in no subscriber set, whatever happens later.
C20_StopCancelsQueuedRun ==
  \A e \in WatchEffects :
    (variant = "day6" /\ cancelled[e]) =>
      /\ NeverRan(e)
      /\ runs[e] = 0
      /\ ~Has(queue, e)
      /\ ~Subscribed(e)

\* a pass in which E1 ran and stopped E2, whose first run was queued behind it
C20_Witness ==
  /\ variant = "day6" /\ phase = "settled"
  /\ body["E1"] = "stopNext" /\ runs["E1"] = 1
  /\ body["E2"] # "none" /\ stopCalls["E2"] = 1 /\ cancelled["E2"]
  /\ NeverRan("E2")

\* C21: no effect is left stale by a flush. When flushJobs has returned
\* normally, no effect that was not stopped is subscribed to a pair whose
\* value changed after the effect's most recent run began, also when the
\* change was made by another job of the same pass.
C21_NoStaleAfterFlush ==
  phase = "settled" =>
    \A e \in WatchEffects :
      ~Stopped(e) => \A d \in stale[e] : e \notin Subs(d[1], d[2])

\* C22: the scheduler stays live. isFlushPending is true only while a
\* flushJobs microtask is scheduled or executing, and a job that is in the
\* queue has a flush scheduled or executing that will reach it, also after a
\* job has thrown during an earlier flush.
C22_SchedulerLive ==
  variant \in {"day3", "day7"} =>
    /\ isFlushPending => (microtasks > 0 \/ phase = "flushing")
    /\ queue # <<>> => (microtasks > 0 \/ phase = "flushing")

\* the effects whose most recent run read key k of T
ReadersOf(k) == {e \in WatchEffects : body[e] = "readC" /\ k = "c" /\ lastReads[e] # {}}

\* C23: the read trap always tracks (target, key). An effect whose run read a
\* key of the reactive object is in the subscriber set of that key, also when
\* the slot holds a ref; and right after a script put a different ref in the
\* slot, every such effect is in the queue.
C23_ReadAlwaysTracks ==
  \A k \in refKeys :
    /\ ReadersOf(k) \subseteq Subs("T", k)
    /\ (lastOp.op = "setRef" /\ lastOp.k = k /\ lastOp.v # lastOp.old) =>
         ReadersOf(k) \subseteq Members(queue)

\* C24: cleanup ordering. When the body of an effect starts a run, the cleanup
\* its previous run registered has been invoked exactly once since that run,
\* and never while the effect was the active effect; when the previous run
\* registered no cleanup, none has been invoked since.
C24_CleanupOnceBetweenRuns ==
  \A e \in WatchEffects :
    runs[e] >= 1 =>
      IF atRun[e].had THEN atRun[e].n = 1 /\ ~atRun[e].self
      ELSE atRun[e].n = 0

\* C25: nested effect context (day 4). An effect whose body read the computed
\* and then key b is subscribed to the computed's "value" and to b, and not to
\* the source the getter read; the computed's invalidation effect is
\* subscribed to that source; and between two steps no effect is running: the
\* stack is empty and activeEffect is its (undefined) top.
C25_NestedContext ==
  variant = "day4" =>
    /\ \A e \in WatchEffects :
         (body[e] = "readCmpB" /\ lastReads[e] # {}) =>
           /\ e \in Subs("cmp", "value") /\ e \in Subs("T", "b")
           /\ lastReads[e] = {CmpDep, <<"T", "b">>}
           /\ e \notin Subs(SourceDep[1], SourceDep[2])
           /\ CE \in Subs(SourceDep[1], SourceDep[2])
    /\ effectStack = <<>> /\ activeEffect = Undefined

\* the invalidation effect ran in this pass and the only effect then read the
\* dirty computed: its run called the getter and went on to read b
C25_Witness ==
  /\ variant = "day4" /\ phase = "settled"
  /\ body["E1"] = "readCmpB" /\ body["E2"] = "none"
  /\ runs[CE] = 1 /\ runs["E1"] = 1 /\ ~dirty /\ calls = 1
  /\ "E1" \in Subs("T", "b") /\ CE \in Subs("T", "a")

\* the objects the day-6 script's effects read: the raw original, its reactive
\* proxy (the target of the view), the raw nested object, and one proxy of it
ViewObjects == {"T", "P", "N", ProxyNames[1]}

\* C26: reading through proxies does not grow the graph. targetMap never has
\* more Target entries than there are objects read, so the re-run of an
\* effect that reads the same nested property through the readonly view adds
\* no Target entry.
C26_GraphBounded ==
  Cardinality(DOMAIN targetMap) <= Cardinality(ViewObjects)

\* the (target, key) pairs whose subscriber set in tm holds e
PairsOf(tm, e) ==
  {d \in DOMAIN store :
     /\ d[1] \in DOMAIN tm
     /\ d[2] \in DOMAIN tm[d[1]]
     /\ Has(tm[d[1]][d[2]], e)}

\* C27: stale dependencies are retained. In a step after which stop() has
\* never been called for an effect, the effect is subscribed to every pair it
\* was subscribed to before; and when the step is a script's write that
\* changes the value of such a pair, read by the latest run or not, the
\* effect is in the queue afterwards.
C27_DepsNeverShrink ==
  [][\A e \in WatchEffects :
       stopCalls'[e] = 0 =>
         /\ PairsOf(targetMap, e) \subseteq PairsOf(targetMap', e)
         /\ \A d \in PairsOf(targetMap, e) :
              (phase' = "sync" /\ store'[d] # store[d]) => Has(queue', e)]_vars

\* the latest run of the effect read a only, a write then changed b, which an
\* earlier run had read, and the effect is queued
C27_Witness ==
  \E e \in WatchEffects :
    /\ variant = "day6" /\ body[e] = "condB" /\ stopCalls[e] = 0
    /\ lastReads[e] = {<<"T", "a">>} /\ e \in Subs("T", "b")
    /\ phase = "sync" /\ <<"T", "b">> \in stale[e] /\ Has(queue, e)

\* C28: in the day-2 engine, right after a script appended an element to the
\* array with push, every effect whose latest run had read the array's
\* length and elements (as join does) has been run again.
C28_PushRerunsJoin ==
  (variant = "day2" /\ lastOp.op = "push") =>
    \A e \in WatchEffects : body[e] = "join" => runs[e] >= 1

\* C29: right after a script called the stop function watchEffect returned,
\* the call has completed without raising an error and the effect is in no
\* subscriber set of targetMap, in the day-7 engine as in the day-6 engine.
C29_StopCompletes ==
  lastOp.op = "stop" => (result = Undefined /\ ~Subscribed(lastOp.k))

\* C30: right after a script assigned to a ref cell's .value, every
\* subscriber of (cell, "value") is in the queue, whatever was assigned; and
\* right after a script changed a nested property of the object a shallow
\* cell holds, the queue is what it was before.
C30_RefWriteAlwaysTriggers ==
  /\ lastOp.op = "cellAssign" => Subs("r", "value") \subseteq Members(queue)
  /\ (lastOp.op = "cellNestedSet" /\ refCell.shallow) =>
       queue = lastOp.old

====
